---- MODULE Spec2Model ----
(***************************************************************************)
(* Model of package server (src/server/server.go): the Server registry of  *)
(* named Services, the Register broadcast and the once-only, deadline      *)
(* bounded Close.                                                          *)
(*                                                                         *)
(* Goroutines are modelled as processes with a program counter each:       *)
(*   - one per Close call (pc),                                            *)
(*   - the shutdown body fn of tryClose, run by the call that wins         *)
(*     closeOnce (bodyPc),                                                 *)
(*   - per visited map slot the outer goroutine (outer) and the inner      *)
(*     goroutine that calls srv.Close (inner).                             *)
(* Time is the number of units elapsed since context.WithTimeout.          *)
(***************************************************************************)
EXTENDS Integers, Sequences, FiniteSets, TLC

\* ---- bounds of the model ------------------------------------------------
NumNames == 2
NumEntries == 2
NumCalls == 2
MaxSends == 1
TickStep == 5                 \* granularity of the clock

Names == 1..NumNames          \* service names (map keys)
Entries == 1..NumEntries      \* Service implementations (interface values)
Calls == 1..NumCalls          \* invocations of Server.Close
NoService == 0                \* the nil Service
NoChan == 0                   \* the nil chan struct{}

\* ---- program constants --------------------------------------------------
\* const MaxCloseWaitTime = 10 * time.Second, in seconds
MaxCloseWaitTime == 10

\* values of the field Server.MaxCloseWaitTime (seconds): negative, unset
\* (both below the floor) and above the floor
ConfiguredWaits == {-1, 0, 11}

\* error values
ErrNil == <<>>
ErrInvalidDesc == <<"service desc type invalid">>
EntryErr(n) == <<"entry error", n>>

VARIABLES
    maxCloseWaitTime,  \* field Server.MaxCloseWaitTime
    services,          \* field services: set of <<name, entry>> pairs
    servicesMade,      \* services # nil
    failedServices,    \* field failedServices: the keys stored in the sync.Map
    closeCh,           \* field closeCh: "nil", "open" or "closed"
    closeOnce,         \* field closeOnce: "fresh", "running" or "done"
    pc,                \* position of each Close call
    ackArg,            \* argument ch of each Close call (NoChan or a channel id)
    ret,               \* value returned by each Close call
    ackRecv,           \* number of values delivered on each ack channel
    bodyRuns,          \* number of executions of the closure fn
    bodyPc,            \* position of the closure fn
    closeWaitTime,     \* local closeWaitTime of fn
    ctx,               \* the timeout context: "none", "active", "cancelled"
    elapsed,           \* time since context.WithTimeout
    visited,           \* map keys the range loop of fn has produced
    wg,                \* counter of the sync.WaitGroup
    outer,             \* per slot: outer goroutine
    outerSrv,          \* per slot: parameter srv of the outer goroutine
    notify,            \* per slot: number of values buffered in channel c
    inner,             \* per slot: inner goroutine
    closeCalls,        \* per slot: number of srv.Close invocations
    closeTarget,       \* per slot: the Service whose Close was invoked
    closeErr,          \* per slot: the error srv.Close returned
    sends,             \* per slot: signals the entry has sent on c
    added,             \* number of AddService calls so far
    raised,            \* history: number of close(s.closeCh) that succeeded
    regPc,             \* position of the Server.Register call
    regDesc,           \* argument serviceDesc of Server.Register
    regImpl,           \* argument serviceImpl of Server.Register
    regVisited,        \* map keys the range loop of Register has produced
    regLog,            \* the srv.Register invocations of this call, in order
    regRet,            \* value returned by Server.Register
    regAdded           \* history: value of added when Register was called

vars == <<maxCloseWaitTime, services, servicesMade, failedServices, closeCh,
          closeOnce, pc, ackArg, ret, ackRecv, bodyRuns, bodyPc,
          closeWaitTime, ctx, elapsed, visited, wg, outer, outerSrv, notify,
          inner, closeCalls, closeTarget, closeErr, sends, added, raised,
          regPc, regDesc, regImpl, regVisited, regLog, regRet, regAdded>>

cfgVars == <<maxCloseWaitTime, failedServices>>
mapVars == <<services, servicesMade, added>>
sigVars == <<closeCh, raised>>
regOpVars == <<regPc, regDesc, regImpl, regVisited, regLog, regRet,
              regAdded>>
callVars == <<pc, ackArg, ret, ackRecv>>
bodyVars == <<bodyRuns, bodyPc, closeWaitTime, ctx, elapsed, visited, wg>>
slotVars == <<outer, outerSrv, notify, inner, closeCalls, closeTarget,
              closeErr, sends>>

\* ---- the services map ---------------------------------------------------
\* keys present in the map
Keys(m) == {p[1] : p \in m}

\* m[name], the zero value (nil) when the key is absent
Lookup(m, name) ==
    IF \E p \in m : p[1] = name
    THEN (CHOOSE p \in m : p[1] = name)[2]
    ELSE NoService

\* a map assignment that keeps the value of a key already present
MapAssignKeepFirst(m, name, service) ==
    IF \E p \in m : p[1] = name THEN m ELSE m \cup {<<name, service>>}

\* m[name] = service
MapAssign(m, name, service) ==
    {p \in m : p[1] # name} \cup {<<name, service>>}

\* func (s *Server) Service(serviceName string) Service
Service(serviceName) ==
    IF ~servicesMade THEN NoService ELSE Lookup(services, serviceName)

\* an unrecovered panic ends the process
Crashed == \E i \in Calls : pc[i] = "panicked"

\* no Close call is between its entry and its return
Quiescent == \A i \in Calls : pc[i] \in {"idle", "returned"}

Init ==
    /\ maxCloseWaitTime \in ConfiguredWaits
    /\ services = {}
    /\ servicesMade = FALSE
    /\ failedServices \in SUBSET Names
    /\ closeCh \in {"nil", "open"}
    /\ closeOnce = "fresh"
    /\ pc = [i \in Calls |-> "idle"]
    /\ ackArg = [i \in Calls |-> NoChan]
    /\ ret = [i \in Calls |-> <<"none">>]
    /\ ackRecv = [c \in Calls |-> 0]
    /\ bodyRuns = 0
    /\ bodyPc = "none"
    /\ closeWaitTime = 0
    /\ ctx = "none"
    /\ elapsed = 0
    /\ visited = {}
    /\ wg = 0
    /\ outer = [n \in Names |-> "none"]
    /\ outerSrv = [n \in Names |-> NoService]
    /\ notify = [n \in Names |-> 0]
    /\ inner = [n \in Names |-> "none"]
    /\ closeCalls = [n \in Names |-> 0]
    /\ closeTarget = [n \in Names |-> NoService]
    /\ closeErr = [n \in Names |-> <<"none">>]
    /\ sends = [n \in Names |-> 0]
    /\ added = 0
    /\ raised = 0
    /\ regPc = "idle"
    /\ regDesc = "none"
    /\ regImpl = "none"
    /\ regVisited = {}
    /\ regLog = <<>>
    /\ regRet = <<"none">>
    /\ regAdded = 0

\* ---- AddService ---------------------------------------------------------
\* func (s *Server) AddService(serviceName string, service Service).
\* The map is not synchronised: the owner of the Server adds entries while
\* no Close call and no Register loop is executing.  Every call passes a
\* Service value that was not passed before: the k-th call passes entry k.
AddService(serviceName, service) ==
    /\ ~Crashed
    /\ Quiescent
    /\ regPc # "loop"
    /\ service = added + 1
    /\ added' = added + 1
    /\ servicesMade' = TRUE
    /\ services' = MapAssign(services, serviceName, service)
    /\ UNCHANGED <<cfgVars, sigVars, closeOnce, callVars, bodyVars, slotVars,
                   regOpVars>>

\* ---- Register -----------------------------------------------------------
\* values passed as serviceDesc: two *ServiceDesc and a value of another
\* type; values passed as serviceImpl
DescArgs == {"desc1", "desc2", "notdesc"}
ImplArgs == {"impl1", "impl2"}

\* line 90: desc, ok := serviceDesc.(*ServiceDesc)
IsServiceDesc(serviceDesc) == serviceDesc \in {"desc1", "desc2"}

\* a Register that skips the type assertion
RegisterStartUnchecked(serviceDesc, serviceImpl) ==
    /\ regPc \in {"idle", "done"}
    /\ regDesc' = serviceDesc
    /\ regImpl' = serviceImpl
    /\ regVisited' = {}
    /\ regLog' = <<>>
    /\ regAdded' = added
    /\ regPc' = "loop"
    /\ regRet' = <<"none">>
    /\ UNCHANGED <<cfgVars, sigVars, mapVars, closeOnce, callVars, bodyVars,
                   slotVars>>

\* Register, lines 90-93: the type assertion on serviceDesc
RegisterStart(serviceDesc, serviceImpl) ==
    /\ regPc \in {"idle", "done"}
    /\ regDesc' = serviceDesc
    /\ regImpl' = serviceImpl
    /\ regVisited' = {}
    /\ regLog' = <<>>
    /\ regAdded' = added
    /\ IF IsServiceDesc(serviceDesc)
       THEN /\ regPc' = "loop"
            /\ regRet' = <<"none">>
       ELSE /\ regPc' = "done"
            /\ regRet' = ErrInvalidDesc
    /\ UNCHANGED <<cfgVars, sigVars, mapVars, closeOnce, callVars, bodyVars,
                   slotVars>>

\* a loop that remembers the error of an entry and goes on
RegisterIterContinue(name, err) ==
    /\ regPc = "loop"
    /\ name \in Keys(services) \ regVisited
    /\ regVisited' = regVisited \cup {name}
    /\ regLog' = Append(regLog, [name |-> name,
                                 srv |-> Lookup(services, name),
                                 desc |-> regDesc,
                                 impl |-> regImpl,
                                 err |-> err])
    /\ IF err # ErrNil
       THEN regRet' = err
       ELSE UNCHANGED regRet
    /\ UNCHANGED <<cfgVars, sigVars, mapVars, closeOnce, callVars, bodyVars,
                   slotVars, regPc, regDesc, regImpl, regAdded>>

\* a loop that, when an entry fails, takes the entries it has visited out
\* of the map again
RegisterIterRollback(name, err) ==
    /\ regPc = "loop"
    /\ name \in Keys(services) \ regVisited
    /\ regVisited' = regVisited \cup {name}
    /\ regLog' = Append(regLog, [name |-> name,
                                 srv |-> Lookup(services, name),
                                 desc |-> regDesc,
                                 impl |-> regImpl,
                                 err |-> err])
    /\ IF err # ErrNil
       THEN /\ regPc' = "done"
            /\ regRet' = err
            /\ services' = {q \in services : q[1] \notin regVisited}
       ELSE UNCHANGED <<regPc, regRet, services>>
    /\ UNCHANGED <<cfgVars, sigVars, servicesMade, added, closeOnce, callVars,
                   bodyVars, slotVars, regDesc, regImpl, regAdded>>

\* Register, lines 95-99: one iteration of the range loop; srv.Register
\* returns err
RegisterIter(name, err) ==
    /\ regPc = "loop"
    /\ name \in Keys(services) \ regVisited
    /\ regVisited' = regVisited \cup {name}
    /\ regLog' = Append(regLog, [name |-> name,
                                 srv |-> Lookup(services, name),
                                 desc |-> regDesc,
                                 impl |-> regImpl,
                                 err |-> err])
    /\ IF err # ErrNil
       THEN /\ regPc' = "done"
            /\ regRet' = err
       ELSE UNCHANGED <<regPc, regRet>>
    /\ UNCHANGED <<cfgVars, sigVars, mapVars, closeOnce, callVars, bodyVars,
                   slotVars, regDesc, regImpl, regAdded>>

\* Register, line 100: the loop is over, return nil
RegisterEnd ==
    /\ regPc = "loop"
    /\ Keys(services) \subseteq regVisited
    /\ regPc' = "done"
    /\ regRet' = ErrNil
    /\ UNCHANGED <<cfgVars, sigVars, mapVars, closeOnce, callVars, bodyVars,
                   slotVars, regDesc, regImpl, regVisited, regLog, regAdded>>

\* ---- Close --------------------------------------------------------------
\* close(s.closeCh) on a channel in state ch: the new state, or "panic"
CloseChan(ch) ==
    IF ch = "open" THEN "closed" ELSE "panic"

\* a Close that never closes s.closeCh
CloseSignalNoClose(i, ch) ==
    /\ ~Crashed
    /\ pc[i] = "idle"
    /\ ackArg' = [ackArg EXCEPT ![i] = ch]
    /\ pc' = [pc EXCEPT ![i] = "tryClose"]
    /\ UNCHANGED <<cfgVars, sigVars, mapVars, closeOnce, ret, ackRecv,
                   bodyVars, slotVars, regOpVars>>

\* Close, lines 104-106: if s.closeCh != nil { close(s.closeCh) }
CloseSignal(i, ch) ==
    /\ ~Crashed
    /\ pc[i] = "idle"
    /\ ackArg' = [ackArg EXCEPT ![i] = ch]
    /\ IF closeCh # "nil"
       THEN IF CloseChan(closeCh) = "panic"
            THEN /\ pc' = [pc EXCEPT ![i] = "panicked"]
                 /\ UNCHANGED sigVars
            ELSE /\ closeCh' = CloseChan(closeCh)
                 /\ raised' = raised + 1
                 /\ pc' = [pc EXCEPT ![i] = "tryClose"]
       ELSE /\ pc' = [pc EXCEPT ![i] = "tryClose"]
            /\ UNCHANGED sigVars
    /\ UNCHANGED <<cfgVars, mapVars, closeOnce, ret, ackRecv, bodyVars,
                   slotVars, regOpVars>>

\* a once that lets every caller in until the function has completed
OnceWinsUntilDone(once) == once # "done"

\* sync.Once.Do: the caller may run the function
OnceWins(once) == once = "fresh"

\* a once that does not hold callers back while the function is running
OncePassesWhileRunning(once) == once # "fresh"

\* sync.Once.Do: the caller may return without running the function
OncePasses(once) == once = "done"

\* a wait that takes the configured value as it is
FloorWaitAbsent(configured) == configured

\* a wait that takes the smaller of the configured value and the floor
FloorWaitSmaller(configured) ==
    IF configured < MaxCloseWaitTime THEN configured ELSE MaxCloseWaitTime

\* tryClose, line 176: s.closeOnce.Do(fn), the caller that runs fn.
\* fn starts: lines 130-139, closeWaitTime and the timeout context.
FloorWait(configured) ==
    IF configured < MaxCloseWaitTime THEN MaxCloseWaitTime ELSE configured

TryCloseRun(i) ==
    /\ ~Crashed
    /\ pc[i] = "tryClose"
    /\ OnceWins(closeOnce)
    /\ closeOnce' = "running"
    /\ pc' = [pc EXCEPT ![i] = "body"]
    /\ bodyRuns' = bodyRuns + 1
    /\ bodyPc' = "loop"
    /\ closeWaitTime' = FloorWait(maxCloseWaitTime)
    /\ ctx' = "active"
    /\ elapsed' = 0
    /\ visited' = {}
    /\ wg' = 0
    /\ UNCHANGED <<cfgVars, sigVars, mapVars, regOpVars, ackArg, ret, ackRecv,
                   slotVars>>

\* tryClose, line 176: s.closeOnce.Do(fn), a caller that finds fn completed
\* (a caller that finds fn running blocks until then)
TryClosePass(i) ==
    /\ ~Crashed
    /\ pc[i] = "tryClose"
    /\ OncePasses(closeOnce)
    /\ pc' = [pc EXCEPT ![i] = "ack"]
    /\ UNCHANGED <<cfgVars, sigVars, mapVars, regOpVars, closeOnce, ackArg, ret,
                   ackRecv, bodyVars, slotVars>>

\* a fan-out that never consults failedServices
IsFailedNever(name) == FALSE

\* line 145: _, ok := s.failedServices.Load(name)
IsFailed(name) == name \in failedServices

\* fn, lines 143-171: one iteration of the range loop over s.services
BodyIter(name) ==
    /\ ~Crashed
    /\ bodyPc = "loop"
    /\ name \in Keys(services) \ visited
    /\ visited' = visited \cup {name}
    /\ IF IsFailed(name)
       THEN UNCHANGED <<wg, outer, outerSrv>>
       ELSE /\ wg' = wg + 1
            /\ outer' = [outer EXCEPT ![name] = "started"]
            /\ outerSrv' = [outerSrv EXCEPT ![name] = Lookup(services, name)]
    /\ UNCHANGED <<cfgVars, sigVars, mapVars, regOpVars, closeOnce, callVars,
                   bodyRuns, bodyPc, closeWaitTime, ctx, elapsed, notify,
                   inner, closeCalls, closeTarget, closeErr, sends>>

\* fn: the range loop ends when every key has been produced
BodyLoopEnd ==
    /\ ~Crashed
    /\ bodyPc = "loop"
    /\ Keys(services) \subseteq visited
    /\ bodyPc' = "wait"
    /\ UNCHANGED <<cfgVars, sigVars, mapVars, regOpVars, closeOnce, callVars,
                   bodyRuns, closeWaitTime, ctx, elapsed, visited, wg,
                   slotVars>>

\* a wait that returns at once, whatever the counter
WaitDoneAtOnce(counter) == TRUE

\* sync.WaitGroup.Wait returns
WaitDone(counter) == counter = 0

\* a body that arms closeOnce again when it has completed
BodyWaitRearms(i) ==
    /\ ~Crashed
    /\ pc[i] = "body"
    /\ bodyPc = "wait"
    /\ WaitDone(wg)
    /\ bodyPc' = "done"
    /\ ctx' = "cancelled"
    /\ closeOnce' = "fresh"
    /\ pc' = [pc EXCEPT ![i] = "ack"]
    /\ UNCHANGED <<cfgVars, sigVars, mapVars, regOpVars, ackArg, ret, ackRecv,
                   bodyRuns, closeWaitTime, elapsed, visited, wg, slotVars>>

\* fn, line 172: wg.Wait() returns, the deferred cancel() runs, fn returns
\* and closeOnce.Do returns to the caller that ran it
BodyWait(i) ==
    /\ ~Crashed
    /\ pc[i] = "body"
    /\ bodyPc = "wait"
    /\ WaitDone(wg)
    /\ bodyPc' = "done"
    /\ ctx' = "cancelled"
    /\ closeOnce' = "done"
    /\ pc' = [pc EXCEPT ![i] = "ack"]
    /\ UNCHANGED <<cfgVars, sigVars, mapVars, regOpVars, ackArg, ret, ackRecv,
                   bodyRuns, closeWaitTime, elapsed, visited, wg, slotVars>>

\* Close, lines 110-113: the acknowledgment and return nil.
\* The receiver of an ack channel is taken to be ready.
AckTarget(i) == ackArg[i]

CloseReturn(i) ==
    /\ ~Crashed
    /\ pc[i] = "ack"
    /\ IF ackArg[i] # NoChan
       THEN ackRecv' = [ackRecv EXCEPT ![AckTarget(i)] = @ + 1]
       ELSE UNCHANGED ackRecv
    /\ pc' = [pc EXCEPT ![i] = "returned"]
    /\ ret' = [ret EXCEPT ![i] = ErrNil]
    /\ UNCHANGED <<cfgVars, sigVars, mapVars, regOpVars, closeOnce, ackArg,
                   bodyVars, slotVars>>

\* ---- the goroutines of one slot -----------------------------------------
\* <-ctx.Done() is ready
CtxDone == ctx = "cancelled" \/ (ctx = "active" /\ elapsed >= closeWaitTime)

Min(a, b) == IF a < b THEN a ELSE b

\* the timer of the context advances, up to the deadline
Tick ==
    /\ ~Crashed
    /\ ctx = "active"
    /\ elapsed < closeWaitTime
    /\ elapsed' = Min(elapsed + TickStep, closeWaitTime)
    /\ UNCHANGED <<cfgVars, sigVars, mapVars, regOpVars, closeOnce, callVars,
                   bodyRuns, bodyPc, closeWaitTime, ctx, visited, wg,
                   slotVars>>

\* outer goroutine, lines 150-161: c := make(chan struct{}, 1); go func(){...}()
OuterStart(name) ==
    /\ ~Crashed
    /\ outer[name] = "started"
    /\ outer' = [outer EXCEPT ![name] = "select"]
    /\ notify' = [notify EXCEPT ![name] = 0]
    /\ inner' = [inner EXCEPT ![name] = "spawned"]
    /\ UNCHANGED <<cfgVars, sigVars, mapVars, regOpVars, closeOnce, callVars,
                   bodyVars, outerSrv, closeCalls, closeTarget, closeErr,
                   sends>>

\* outer goroutine, lines 164-166 and 151: case <-c, then wg.Done()
OuterFinished(name) ==
    /\ ~Crashed
    /\ outer[name] = "select"
    /\ notify[name] > 0
    /\ notify' = [notify EXCEPT ![name] = @ - 1]
    /\ outer' = [outer EXCEPT ![name] = "finished"]
    /\ wg' = wg - 1
    /\ UNCHANGED <<cfgVars, sigVars, mapVars, regOpVars, closeOnce, callVars,
                   bodyRuns, bodyPc, closeWaitTime, ctx, elapsed, visited,
                   outerSrv, inner, closeCalls, closeTarget, closeErr, sends>>

\* outer goroutine, lines 167-169 and 151: case <-ctx.Done(), then wg.Done()
OuterTimedOut(name) ==
    /\ ~Crashed
    /\ outer[name] = "select"
    /\ CtxDone
    /\ outer' = [outer EXCEPT ![name] = "timedout"]
    /\ wg' = wg - 1
    /\ UNCHANGED <<cfgVars, sigVars, mapVars, regOpVars, closeOnce, callVars,
                   bodyRuns, bodyPc, closeWaitTime, ctx, elapsed, visited,
                   outerSrv, notify, inner, closeCalls, closeTarget, closeErr,
                   sends>>

\* inner goroutine, line 157: srv.Close(c) is invoked
InnerCall(name) ==
    /\ ~Crashed
    /\ inner[name] = "spawned"
    /\ inner' = [inner EXCEPT ![name] = "calling"]
    /\ closeCalls' = [closeCalls EXCEPT ![name] = @ + 1]
    /\ closeTarget' = [closeTarget EXCEPT ![name] = outerSrv[name]]
    /\ UNCHANGED <<cfgVars, sigVars, mapVars, regOpVars, closeOnce, callVars,
                   bodyVars, outer, outerSrv, notify, closeErr, sends>>

\* a send on a channel without a buffer: it needs the outer step to be
\* receiving
EntrySignalUnbuffered(name) ==
    /\ ~Crashed
    /\ inner[name] \in {"calling", "returned"}
    /\ sends[name] < MaxSends
    /\ outer[name] = "select"
    /\ notify[name] < 1
    /\ notify' = [notify EXCEPT ![name] = @ + 1]
    /\ sends' = [sends EXCEPT ![name] = @ + 1]
    /\ UNCHANGED <<cfgVars, sigVars, mapVars, regOpVars, closeOnce, callVars,
                   bodyVars, outer, outerSrv, inner, closeCalls, closeTarget,
                   closeErr>>

\* the entry sends a completion signal on c (capacity 1), during or after
\* its Close call
EntrySignal(name) ==
    /\ ~Crashed
    /\ inner[name] \in {"calling", "returned"}
    /\ sends[name] < MaxSends
    /\ notify[name] < 1
    /\ notify' = [notify EXCEPT ![name] = @ + 1]
    /\ sends' = [sends EXCEPT ![name] = @ + 1]
    /\ UNCHANGED <<cfgVars, sigVars, mapVars, regOpVars, closeOnce, callVars,
                   bodyVars, outer, outerSrv, inner, closeCalls, closeTarget,
                   closeErr>>

\* an inner goroutine that reports a failed Close as a completion on c
InnerReturnSignals(name, err) ==
    /\ ~Crashed
    /\ inner[name] = "calling"
    /\ inner' = [inner EXCEPT ![name] = "returned"]
    /\ closeErr' = [closeErr EXCEPT ![name] = err]
    /\ IF err # ErrNil /\ notify[name] < 1
       THEN notify' = [notify EXCEPT ![name] = @ + 1]
       ELSE UNCHANGED notify
    /\ UNCHANGED <<cfgVars, sigVars, mapVars, regOpVars, closeOnce, callVars,
                   bodyVars, outer, outerSrv, closeCalls, closeTarget,
                   sends>>

\* inner goroutine, lines 157-160: srv.Close(c) returns err, which is dropped
InnerReturn(name, err) ==
    /\ ~Crashed
    /\ inner[name] = "calling"
    /\ inner' = [inner EXCEPT ![name] = "returned"]
    /\ closeErr' = [closeErr EXCEPT ![name] = err]
    /\ UNCHANGED <<cfgVars, sigVars, mapVars, regOpVars, closeOnce, callVars,
                   bodyVars, outer, outerSrv, notify, closeCalls, closeTarget,
                   sends>>

Next ==
    \/ \E n \in Names, e \in Entries : AddService(n, e)
    \/ \E i \in Calls : \E ch \in {NoChan, i} : CloseSignal(i, ch)
    \/ \E i \in Calls : TryCloseRun(i)
    \/ \E i \in Calls : TryClosePass(i)
    \/ \E n \in Names : BodyIter(n)
    \/ BodyLoopEnd
    \/ \E i \in Calls : BodyWait(i)
    \/ \E i \in Calls : CloseReturn(i)
    \/ Tick
    \/ \E n \in Names : OuterStart(n)
    \/ \E n \in Names : OuterFinished(n)
    \/ \E n \in Names : OuterTimedOut(n)
    \/ \E n \in Names : InnerCall(n)
    \/ \E n \in Names : EntrySignal(n)
    \/ \E n \in Names : \E err \in {ErrNil, EntryErr(n)} : InnerReturn(n, err)

Spec == Init /\ [][Next]_vars

\* the goroutines are scheduled fairly and the timer of the context runs;
\* callers, entries and the owner of the Server are under no obligation
Fairness ==
    /\ WF_vars(Tick)
    /\ WF_vars(BodyLoopEnd)
    /\ \A i \in Calls :
        /\ WF_vars(TryCloseRun(i))
        /\ WF_vars(TryClosePass(i))
        /\ WF_vars(BodyWait(i))
        /\ WF_vars(CloseReturn(i))
    /\ \A n \in Names :
        /\ WF_vars(BodyIter(n))
        /\ WF_vars(OuterStart(n))
        /\ WF_vars(OuterFinished(n) \/ OuterTimedOut(n))
        /\ WF_vars(InnerCall(n))

FairSpec == Spec /\ Fairness

\* fair scheduling of the goroutines and entries that all signal in the end,
\* with nothing assumed of the timer
SignalFairness ==
    /\ WF_vars(BodyLoopEnd)
    /\ \A i \in Calls :
        /\ WF_vars(TryCloseRun(i))
        /\ WF_vars(TryClosePass(i))
        /\ WF_vars(BodyWait(i))
        /\ WF_vars(CloseReturn(i))
    /\ \A n \in Names :
        /\ WF_vars(BodyIter(n))
        /\ WF_vars(OuterStart(n))
        /\ WF_vars(OuterFinished(n) \/ OuterTimedOut(n))
        /\ WF_vars(InnerCall(n))
        /\ WF_vars(EntrySignal(n))

SignalSpec == Spec /\ SignalFairness

\* the startup phase: the registry is filled and Register is broadcast
RegNext ==
    \/ \E n \in Names, e \in Entries : AddService(n, e)
    \/ \E d \in DescArgs, m \in ImplArgs : RegisterStart(d, m)
    \/ \E n \in Names : \E err \in {ErrNil, EntryErr(n)} : RegisterIter(n, err)
    \/ RegisterEnd

RegSpec == Init /\ [][RegNext]_vars

\* ---- the scenario of three entries --------------------------------------
\* entries A, B, C are registered under the names 1, 2, 3
ScenNames == {1, 2, 3}

\* the time at which an entry sends its completion signal: A at once, C
\* after 2 units, B never (a time no clock reaches)
SignalAt(name) ==
    CASE name = 1 -> 0
      [] name = 3 -> 2
      [] OTHER -> MaxCloseWaitTime + MaxCloseWaitTime

\* the state after AddService for A, B and C, with MaxCloseWaitTime = 1
ScenInit ==
    /\ maxCloseWaitTime = 1
    /\ services = {<<n, n>> : n \in ScenNames}
    /\ servicesMade = TRUE
    /\ failedServices = {}
    /\ closeCh \in {"nil", "open"}
    /\ closeOnce = "fresh"
    /\ pc = [i \in Calls |-> "idle"]
    /\ ackArg = [i \in Calls |-> NoChan]
    /\ ret = [i \in Calls |-> <<"none">>]
    /\ ackRecv = [c \in Calls |-> 0]
    /\ bodyRuns = 0
    /\ bodyPc = "none"
    /\ closeWaitTime = 0
    /\ ctx = "none"
    /\ elapsed = 0
    /\ visited = {}
    /\ wg = 0
    /\ outer = [n \in ScenNames |-> "none"]
    /\ outerSrv = [n \in ScenNames |-> NoService]
    /\ notify = [n \in ScenNames |-> 0]
    /\ inner = [n \in ScenNames |-> "none"]
    /\ closeCalls = [n \in ScenNames |-> 0]
    /\ closeTarget = [n \in ScenNames |-> NoService]
    /\ closeErr = [n \in ScenNames |-> <<"none">>]
    /\ sends = [n \in ScenNames |-> 0]
    /\ added = Cardinality(ScenNames)
    /\ raised = 0
    /\ regPc = "idle"
    /\ regDesc = "none"
    /\ regImpl = "none"
    /\ regVisited = {}
    /\ regLog = <<>>
    /\ regRet = <<"none">>
    /\ regAdded = 0

\* the entry sends its completion signal when its time has come
ScenSignal(name) ==
    /\ SignalAt(name) <= elapsed
    /\ sends[name] = 0
    /\ EntrySignal(name)

\* a step of a goroutine that is ready to run, or a signal that is due
ScenReady ==
    \/ \E i \in Calls : TryCloseRun(i) \/ TryClosePass(i) \/ BodyWait(i)
                            \/ CloseReturn(i)
    \/ BodyLoopEnd
    \/ \E n \in ScenNames : BodyIter(n) \/ OuterStart(n) \/ OuterFinished(n)
                              \/ OuterTimedOut(n) \/ InnerCall(n)
                              \/ ScenSignal(n)

\* the clock advances by one unit; the steps of the goroutines take no time
ScenTick ==
    /\ ~Crashed
    /\ ctx = "active"
    /\ elapsed < closeWaitTime
    /\ ~ENABLED ScenReady
    /\ elapsed' = elapsed + 1
    /\ UNCHANGED <<cfgVars, sigVars, mapVars, regOpVars, closeOnce, callVars,
                   bodyRuns, bodyPc, closeWaitTime, ctx, visited, wg,
                   slotVars>>

ScenNext ==
    \/ \E i \in Calls : \E ch \in {NoChan, i} : CloseSignal(i, ch)
    \/ \E i \in Calls : TryCloseRun(i)
    \/ \E i \in Calls : TryClosePass(i)
    \/ \E n \in ScenNames : BodyIter(n)
    \/ BodyLoopEnd
    \/ \E i \in Calls : BodyWait(i)
    \/ \E i \in Calls : CloseReturn(i)
    \/ ScenTick
    \/ \E n \in ScenNames : OuterStart(n)
    \/ \E n \in ScenNames : OuterFinished(n)
    \/ \E n \in ScenNames : OuterTimedOut(n)
    \/ \E n \in ScenNames : InnerCall(n)
    \/ \E n \in ScenNames : ScenSignal(n)
    \/ \E n \in ScenNames : \E err \in {ErrNil, EntryErr(n)} : InnerReturn(n, err)

ScenSpec == ScenInit /\ [][ScenNext]_vars

\* ---- the configured wait over a range ------------------------------------
\* how far below zero and above the floor the configured wait ranges
WaitSpan == 2

\* Server.MaxCloseWaitTime: negative, zero (unset), below, at and above the floor
WideWaits == (0 - WaitSpan) .. (MaxCloseWaitTime + WaitSpan)

\* a Server with any of the configured waits, a nil closeCh and no failed entry
WaitInit ==
    /\ maxCloseWaitTime \in WideWaits
    /\ services = {}
    /\ servicesMade = FALSE
    /\ failedServices = {}
    /\ closeCh = "nil"
    /\ closeOnce = "fresh"
    /\ pc = [i \in Calls |-> "idle"]
    /\ ackArg = [i \in Calls |-> NoChan]
    /\ ret = [i \in Calls |-> <<"none">>]
    /\ ackRecv = [c \in Calls |-> 0]
    /\ bodyRuns = 0
    /\ bodyPc = "none"
    /\ closeWaitTime = 0
    /\ ctx = "none"
    /\ elapsed = 0
    /\ visited = {}
    /\ wg = 0
    /\ outer = [n \in Names |-> "none"]
    /\ outerSrv = [n \in Names |-> NoService]
    /\ notify = [n \in Names |-> 0]
    /\ inner = [n \in Names |-> "none"]
    /\ closeCalls = [n \in Names |-> 0]
    /\ closeTarget = [n \in Names |-> NoService]
    /\ closeErr = [n \in Names |-> <<"none">>]
    /\ sends = [n \in Names |-> 0]
    /\ added = 0
    /\ raised = 0
    /\ regPc = "idle"
    /\ regDesc = "none"
    /\ regImpl = "none"
    /\ regVisited = {}
    /\ regLog = <<>>
    /\ regRet = <<"none">>
    /\ regAdded = 0

WaitSpec == WaitInit /\ [][Next]_vars

\* ---- properties ---------------------------------------------------------
Returned(i) == pc[i] = "returned"
SomeReturned == \E i \in Calls : Returned(i)

\* C1: the closure passed to closeOnce.Do runs at most once, and has run
\* once as soon as any Close call has returned.
C1_ShutdownBodyOnce ==
    /\ bodyRuns <= 1
    /\ SomeReturned => bodyRuns = 1

\* every Close call has returned, after a single execution of the body
C1_Witness ==
    /\ \A i \in Calls : Returned(i)
    /\ bodyRuns = 1

\* C2: every Close call, first or not, completes normally and returns nil,
\* whether closeCh is nil or not.
C2_EveryCloseCompletes ==
    \A i \in Calls :
        /\ pc[i] # "panicked"
        /\ Returned(i) => ret[i] = ErrNil

\* C3: under fair scheduling and a running timer, every Close call made
\* with a nil ack channel returns.
C3_CloseReturns ==
    \A i \in Calls :
        (pc[i] # "idle" /\ ackArg[i] = NoChan) ~> Returned(i)

\* C4: no Close call sends its acknowledgment or returns before wg.Wait of
\* the single execution of the body has been passed.
C4_ReturnAfterBarrier ==
    \A i \in Calls :
        (pc[i] \in {"ack", "returned"} \/ ackRecv[i] > 0)
            => (bodyPc = "done" /\ closeOnce = "done" /\ wg = 0)

\* two Close calls have returned, one of them acknowledged, after a pass
\* in which an entry was waited for until the deadline
C4_Witness ==
    \E i, j \in Calls :
        /\ i # j
        /\ Returned(i) /\ Returned(j)
        /\ ackRecv[i] = 1
        /\ \E n \in Names : outer[n] = "timedout"

\* C5: a Close call with a non-nil ack channel eventually returns, having
\* sent exactly one acknowledgment, on its own channel.
C5_AckDelivered ==
    /\ \A i \in Calls :
        (pc[i] # "idle" /\ ackArg[i] # NoChan)
            ~> (Returned(i) /\ ackRecv[i] = 1)
    /\ [](\A c \in Calls :
            /\ ackRecv[c] <= 1
            /\ ackRecv[c] = 1 => (Returned(c) /\ ackArg[c] = c))

\* C6 as stated: once a Close call has returned closeCh is closed, and it
\* has been closed exactly once.
C6_SignalRaised ==
    SomeReturned => (closeCh = "closed" /\ raised = 1)

\* C6, amended: a non-nil closeCh is closed once a Close call has returned
\* and is closed at most once; a nil closeCh is never closed.
C6_SignalRaisedIfPresent ==
    /\ (SomeReturned /\ closeCh # "nil") => closeCh = "closed"
    /\ raised <= 1
    /\ raised = 1 <=> closeCh = "closed"

\* a Close call has returned on a Server whose closeCh was open
C6_Witness ==
    /\ SomeReturned
    /\ closeCh = "closed"
    /\ raised = 1

\* C7: an entry whose name is in failedServices is never asked to close and
\* the barrier counts only the outer goroutines of the other entries.
C7_FailedNeverClosed ==
    /\ \A n \in failedServices :
        /\ outer[n] = "none"
        /\ inner[n] = "none"
        /\ closeCalls[n] = 0
    /\ \A p \in services :
        p[1] \in failedServices => \A n \in Names : closeTarget[n] # p[2]
    /\ wg = Cardinality({n \in Names \ failedServices :
                            outer[n] \in {"started", "select"}})

\* the pass has completed over a registry with a failed entry, which the
\* loop has produced, and another entry, which was asked to close
C7_Witness ==
    /\ bodyPc = "done"
    /\ \E n \in failedServices \cap visited : Service(n) # NoService
    /\ \E n \in Names \ failedServices : closeCalls[n] = 1

\* number of srv.Register invocations
RegCount == Len(regLog)

\* C8: no entry receives a Register call after an entry has failed, and
\* Register returns the error of that entry as it is.
C8_FailFast ==
    /\ \A k \in 1..(RegCount - 1) : regLog[k].err = ErrNil
    /\ (RegCount > 0 /\ regLog[RegCount].err # ErrNil)
        => (regPc = "done" /\ regRet = regLog[RegCount].err)
    /\ \A k \in 1..RegCount :
        regLog[k].err # ErrNil => regLog[k].err = EntryErr(regLog[k].name)

\* Register has returned the error of an entry and an entry was left
\* without a Register call
C8_Witness ==
    /\ regPc = "done"
    /\ added = regAdded
    /\ RegCount > 0
    /\ regRet = EntryErr(regLog[RegCount].name)
    /\ Keys(services) \ regVisited # {}

\* C9: the map holds one entry per name, the entry of the last AddService
\* call is the one Service returns, and the pass closes the entries the map
\* holds, never one that was replaced.
C9_Replacement ==
    /\ \A p, q \in services : p[1] = q[1] => p = q
    /\ added > 0 => \E n \in Names : Service(n) = added
    /\ bodyPc \in {"loop", "wait"} =>
        \A n \in Names : outer[n] # "none" => outerSrv[n] = Service(n)
    /\ \A n \in Names :
        closeTarget[n] # NoService => closeTarget[n] = outerSrv[n]

\* entry 1 was replaced by entry 2 under the same name, and the pass has
\* invoked Close on entry 2 and on no other
C9_Witness ==
    /\ added = 2
    /\ bodyPc = "done"
    /\ \E n \in Names :
        /\ services = {<<n, 2>>}
        /\ closeTarget[n] = 2
        /\ closeCalls[n] = 1
    /\ \A n \in Names : closeTarget[n] # 1

\* the Register calls logged for key name
RegCallsOf(name) == {k \in 1..RegCount : regLog[k].name = name}

\* C10: with a serviceDesc that is no *ServiceDesc, Register returns an
\* error and calls no entry; with a *ServiceDesc and no failing entry, every
\* entry receives one Register call with the same arguments and Register
\* returns nil.
C10_Descriptor ==
    /\ regDesc = "notdesc" =>
        /\ regPc = "done"
        /\ regRet = ErrInvalidDesc
        /\ regRet # ErrNil
        /\ RegCount = 0
    /\ (regPc = "done" /\ regDesc \in {"desc1", "desc2"}
            /\ added = regAdded
            /\ \A k \in 1..RegCount : regLog[k].err = ErrNil) =>
        /\ regRet = ErrNil
        /\ \A n \in Keys(services) :
            /\ Cardinality(RegCallsOf(n)) = 1
            /\ \A k \in RegCallsOf(n) :
                /\ regLog[k].srv = Service(n)
                /\ regLog[k].desc = regDesc
                /\ regLog[k].impl = regImpl
        /\ \A k \in 1..RegCount : regLog[k].name \in Keys(services)

\* Register was called with a value of another type on a registry of
\* two entries
C10_Witness ==
    /\ regPc = "done"
    /\ regDesc = "notdesc"
    /\ regRet = ErrInvalidDesc
    /\ added = regAdded
    /\ Cardinality(Keys(services)) = 2

\* C11 as stated: in the scenario Close returns at 10 units, the outer step
\* of A ends as finished and those of B and C end as timed out.
C11_Scenario ==
    /\ SomeReturned => (bodyPc = "done" /\ elapsed = MaxCloseWaitTime)
    /\ bodyPc = "done" =>
        /\ outer[1] = "finished"
        /\ outer[2] = "timedout"
        /\ outer[3] = "timedout"

\* C11, amended: in the scenario Close returns at 10 units, the outer steps
\* of A and of C (which signals at 2 units, before the deadline) end as
\* finished and only that of B ends as timed out.
C11_ScenarioFloor ==
    /\ SomeReturned => (bodyPc = "done" /\ elapsed = MaxCloseWaitTime)
    /\ bodyPc = "done" =>
        /\ elapsed = MaxCloseWaitTime
        /\ outer[1] = "finished"
        /\ outer[2] = "timedout"
        /\ outer[3] = "finished"
    /\ \A n \in ScenNames : outer[n] = "finished" => elapsed >= SignalAt(n)

\* Close has returned in the scenario
C11_Witness ==
    /\ SomeReturned
    /\ bodyPc = "done"
    /\ outer[2] = "timedout"
    /\ outer[3] = "finished"
    /\ sends[3] = 1

\* C12: once the shutdown body has started, the timeout it uses is the larger
\* of the configured wait and the floor of 10 units: never below the floor,
\* and the configured wait itself when that is at least the floor; an outer
\* step ends as timed out only when that much time has elapsed.
C12_WaitFloor ==
    ctx # "none" =>
        /\ closeWaitTime >= MaxCloseWaitTime
        /\ closeWaitTime >= maxCloseWaitTime
        /\ closeWaitTime \in {maxCloseWaitTime, MaxCloseWaitTime}
        /\ maxCloseWaitTime >= MaxCloseWaitTime => closeWaitTime = maxCloseWaitTime
        /\ \A n \in Names : outer[n] = "timedout" => elapsed = closeWaitTime

\* a negative configured wait was raised to the floor and an entry timed out
C12_Witness ==
    /\ maxCloseWaitTime < 0
    /\ closeWaitTime = MaxCloseWaitTime
    /\ \E n \in Names : outer[n] = "timedout"
    /\ SomeReturned

\* the entries the pass did not exclude
Asked == visited \ failedServices

\* C13: the shutdown body has completed only when the outer step of every
\* non-excluded entry has ended; an outer step is finished only after the
\* entry sent a signal and timed out only after the shared deadline elapsed;
\* so a body that completes before the deadline has a signal from every
\* non-excluded entry.
C13_Barrier ==
    /\ bodyPc = "done" =>
          \A n \in Asked : outer[n] \in {"finished", "timedout"}
    /\ \A n \in Names :
          /\ outer[n] = "finished" => sends[n] >= 1
          /\ outer[n] = "timedout" => elapsed >= closeWaitTime
    /\ (bodyPc = "done" /\ elapsed < closeWaitTime) =>
          \A n \in Asked : sends[n] >= 1

\* the body completed before the deadline with two entries asked
C13_Witness ==
    /\ bodyPc = "done"
    /\ elapsed < closeWaitTime
    /\ Cardinality(Asked) = NumNames
    /\ \A n \in Asked : outer[n] = "finished"
    /\ SomeReturned

\* C14 (refuted): under fair scheduling, once the single pass has started,
\* every registered non-failed entry has Close invoked on it exactly once,
\* whatever the other entries do, and never more than once.
C14_FanOut ==
    /\ \A n \in Names :
          (bodyPc = "loop" /\ n \in Keys(services) \ failedServices)
              ~> (closeCalls[n] = 1)
    /\ [](\A n \in Names : closeCalls[n] <= 1)

\* C15 (refuted): when every non-excluded entry signals in the end, every
\* Close call that was made returns with the shutdown body completed, even
\* if the timer never advances; so also for an empty registry and for one
\* whose entries are all excluded.
C15_EarlyCompletion ==
    \A i \in Calls : (pc[i] # "idle") ~> (Returned(i) /\ bodyPc = "done")

\* the Close call of the entry under name n has returned an error
Failed(n) == closeErr[n] = EntryErr(n)

\* C16: an error returned by an entry's Close is dropped: every Close call of
\* the Server that returns returns nil, the return of the entry's Close
\* changes nothing of the outer steps, the barrier or the callers, and the
\* outer step of an entry that failed without sending a signal ends only as
\* timed out, at the deadline.
C16_ErrorsAbsorbed ==
    /\ [](\A i \in Calls : Returned(i) => ret[i] = ErrNil)
    /\ [](\A n \in Names :
            (Failed(n) /\ sends[n] = 0) =>
                /\ outer[n] # "finished"
                /\ outer[n] = "timedout" => elapsed >= closeWaitTime
                /\ bodyPc = "done" => outer[n] = "timedout")
    /\ [][closeErr' # closeErr =>
            UNCHANGED <<outer, notify, wg, bodyPc, ctx, pc, ret, sends>>]_vars

\* an entry failed without a signal and timed out, another finished, and
\* Close returned nil
C16_Witness ==
    \E n, m \in Names :
        /\ Failed(n)
        /\ sends[n] = 0
        /\ outer[n] = "timedout"
        /\ outer[m] = "finished"
        /\ \E i \in Calls : Returned(i) /\ ret[i] = ErrNil

\* C17: Register does not roll back: every entry the loop has visited has
\* received exactly one Register call, a call once made stays made (the log
\* of a Register call only grows, by one call per iteration, and is left as
\* it is when Register has returned, until the next Register call starts a
\* new log), and no step of Register adds, removes or replaces an entry of
\* the services map.
C17_NoRollback ==
    /\ [](/\ RegCount = Cardinality(regVisited)
          /\ \A n \in regVisited : Cardinality(RegCallsOf(n)) = 1)
    /\ [][regPc = "loop" =>
            \/ regLog' = regLog
            \/ /\ Len(regLog') = Len(regLog) + 1
               /\ SubSeq(regLog', 1, Len(regLog)) = regLog]_vars
    /\ [][regPc = "done" => (regLog' = regLog \/ regLog' = <<>>)]_vars
    /\ [][regOpVars' # regOpVars =>
            UNCHANGED <<services, servicesMade, added>>]_vars

\* Register has returned the error of the second entry it visited; the
\* first keeps its one Register call and both are still in the map
C17_Witness ==
    /\ regPc = "done"
    /\ added = regAdded
    /\ RegCount = 2
    /\ regLog[1].err = ErrNil
    /\ regRet = EntryErr(regLog[2].name)
    /\ Service(regLog[1].name) = regLog[1].srv
    /\ Service(regLog[2].name) = regLog[2].srv

\* the signals sent on c of the entry under name n and not received
Pending(n) == sends[n] - (IF outer[n] = "finished" THEN 1 ELSE 0)

\* C18: an outer step that timed out has received nothing, then or later:
\* every signal of its entry stays in the buffer of c; the step of the outer
\* goroutine that times out leaves the inner goroutine as it is, and the
\* barrier and the return of Close do not depend on it; an entry that has
\* sent no signal yet can always send one (the buffer of c has room),
\* whatever has become of the outer step.
C18_Abandonment ==
    /\ [](\A n \in Names :
            /\ notify[n] = Pending(n)
            /\ outer[n] = "timedout" => notify[n] = sends[n]
            /\ (~Crashed /\ inner[n] \in {"calling", "returned"}
                    /\ sends[n] = 0) => ENABLED EntrySignal(n))
    /\ [][\A n \in Names :
            (outer[n] = "select" /\ outer'[n] = "timedout") =>
                UNCHANGED <<inner, notify, sends, closeCalls>>]_vars

\* Close has returned while the Close call of an abandoned entry is still
\* running, and the signal the entry sent is left in the buffer
C18_Witness ==
    \E n \in Names :
        /\ SomeReturned
        /\ outer[n] = "timedout"
        /\ inner[n] = "calling"
        /\ sends[n] = 1
        /\ notify[n] = 1

\* the names for which the pass has spawned an outer goroutine
Spawned == {n \in Names : outer[n] # "none"}

\* C19: once the shutdown body has completed it stays completed and the set
\* of entries asked to close is the one the single pass fixed: no later
\* step, of a Close call or other, spawns a goroutine for an entry, visits a
\* name or changes the entry a slot holds; Close is invoked only on entries
\* the pass captured, so never on one added after the pass or one whose name
\* is in failedServices; and no step but AddService changes the services
\* map.
C19_NoReset ==
    /\ [][bodyPc = "done" =>
            /\ bodyPc' = "done"
            /\ closeOnce' = "done"
            /\ UNCHANGED <<bodyRuns, visited, outerSrv, wg, failedServices>>
            /\ Spawned' = Spawned]_vars
    /\ [](\A n \in Names :
            closeCalls[n] > 0 =>
                /\ n \in Asked
                /\ closeTarget[n] = outerSrv[n]
                /\ closeCalls[n] = 1)
    /\ [](bodyPc = "done" =>
            \A n \in Keys(services) \ visited :
                /\ closeCalls[n] = 0
                /\ \A m \in Names : closeTarget[m] # Service(n))
    /\ [][added' = added => UNCHANGED <<services, servicesMade>>]_vars
    /\ [][Keys(services) \subseteq Keys(services')]_vars

\* a Close call made after an entry was added to a Server already shut down
\* has passed tryClose, and the entry has not been asked to close
C19_Witness ==
    \E i, j \in Calls :
        /\ Returned(i)
        /\ pc[j] = "ack"
        /\ bodyPc = "done"
        /\ \E n \in Keys(services) \ (visited \cup failedServices) :
              /\ closeCalls[n] = 0
              /\ outer[n] = "none"

====
